---- MODULE Spec2Model ----
(***************************************************************************)
(* Model of the Minca agent service: the session store of main.py, the     *)
(* LangGraph pipeline of app/graph.py (clasificador, router, ejecutor de   *)
(* consultas, generador de respuesta), the fetch tools of tools/db_tools.py*)
(* and the provider fallback of utils/gemini.py.                           *)
(*                                                                         *)
(* Texts are abstracted to tokens: a question is a sequence of words, an   *)
(* LLM completion is a record saying how it parses, a fixed answer string  *)
(* is a name.  Exceptions are explicit outcomes of the step that raises.   *)
(***************************************************************************)
EXTENDS Integers, Sequences, FiniteSets, TLC

(***************************************************************************)
(* Bounds of the model.                                                    *)
(***************************************************************************)
\* Requests the model lets arrive (each one is numbered by its arrival).
MaxPeticiones == 4
\* Requests that may be between obtener_memoria_sesion and the response.
MaxEnVuelo == 2
\* Requests SpecPipeline runs, one after the other.
MaxSeguidas == 2
\* Longest category list a completion of the classifier holds.
MaxIntenciones == 2
\* Calls of gemini.llamar SpecLlamar makes in one process.
MaxLlamadas == 3
\* Longest question, in words, SpecSaludo asks.
MaxPalabras == 6
\* main.py:32 sets MAX_SESIONES = 100 and response_generator.py:19 sets
\* MAX_MENSAJES_MEMORIA = 10.  The model keeps both as parameters of the code
\* and runs them scaled down, so that eviction and truncation happen within
\* MaxPeticiones requests.
MAX_SESIONES == 2
MAX_MENSAJES_MEMORIA == 4

(***************************************************************************)
(* Values.                                                                 *)
(***************************************************************************)
\* session_id: Optional[str] = None.  Minted ids are 1, 2, ...
Ninguno == 0

Peticiones == 1..MaxPeticiones

\* HERRAMIENTAS: the categories with a registered fetch, in dict order.
HERRAMIENTAS ==
    <<"inventario", "garantias", "movimientos_tecnicos", "solicitudes",
      "conteos", "repuestos">>

Rango(s) == {s[i] : i \in DOMAIN s}

EnHerramientas(i) == i \in Rango(HERRAMIENTAS)

\* Category names a completion may hold: registered ones, the sentinel, and
\* one name without a tool.
CategoriasLLM == {"inventario", "garantias", "conteos", "no_reconocida", "ventas"}

\* TipoOperacion
TipoOperacion == {"lectura", "insertar", "actualizar", "eliminar"}

\* A text is a sequence of words; "" is <<>>.  The fixed answers of the
\* generator are one-word texts.
RESPUESTA_NO_RECONOCIDA == <<"aclaracion">>
RESPUESTA_ERROR_FATAL == <<"disculpa">>
RESPUESTA_REINTENTO == <<"reintento">>
saludos_respuesta ==
    << <<"saludo_1">>, <<"saludo_2">>, <<"saludo_3">>, <<"saludo_4">> >>

\* AgentState with its defaults; main.py passes pregunta_actual and memoria.
AgentState(pregunta, memoria) ==
    [pregunta_actual |-> pregunta,
     memoria |-> memoria,
     intenciones |-> <<>>,
     tipo_operacion |-> "lectura",
     contexto_db |-> <<>>,
     errores |-> <<>>,
     respuesta_final |-> <<>>]

\* MensajeMemoria(rol, contenido): an object of the class.  `de` is the
\* request that appended the turn; it makes the turns of different requests
\* different texts.
MensajeMemoria(rol, contenido, de) ==
    [clase |-> "MensajeMemoria", rol |-> rol, contenido |-> contenido, de |-> de]

\* msg.model_dump(): the dict of an object.
model_dump(msg) == [rol |-> msg.rol, contenido |-> msg.contenido, de |-> msg.de]

\* The MensajeMemoria built from a dict of main.py:175.
DeDict(d) == MensajeMemoria(d.rol, d.contenido, d.de)

\* s[-n:]
Ultimos(s, n) ==
    IF Len(s) <= n THEN s ELSE SubSeq(s, Len(s) - n + 1, Len(s))

\* [f(x) for x in s]
Mapear(F(_), s) == [i \in DOMAIN s |-> F(s[i])]

\* [x for x in s if P(x)]
RECURSIVE Filtrar(_, _)
Filtrar(P(_), s) ==
    IF s = <<>> THEN <<>>
    ELSE (IF P(Head(s)) THEN <<Head(s)>> ELSE <<>>) \o Filtrar(P, Tail(s))

\* any(not e["recuperable"] for e in state.errores)
tiene_error_fatal(state) ==
    \E k \in DOMAIN state.errores : ~state.errores[k].recuperable

(***************************************************************************)
(* app/response_generator.py: es_saludo.                                   *)
(***************************************************************************)
\* The one-word entries of `saludos`.  The entries of two words ("buenos
\* dias", ...) need words the questions of the model do not hold.
saludos == {"hola", "hey", "saludos", "holi", "holaa", "holaaa"}

\* `saludo in pregunta_lower` is a substring test: over the words of the
\* model, "hola" is inside "hola" and inside "holanda".
SubcadenaDe(saludo, palabra) ==
    \/ saludo = palabra
    \/ saludo = "hola" /\ palabra = "holanda"

es_saludo(pregunta) ==
    IF Len(pregunta) > 5 THEN FALSE
    ELSE \E s \in saludos : \E k \in DOMAIN pregunta : SubcadenaDe(s, pregunta[k])

(***************************************************************************)
(* tools/db_tools.py: the fetch of one category.  `res` is what the        *)
(* database does: "error" (any exception inside the try) or "filas" (the   *)
(* rows it returns).  The tool mutates the state it is given and returns   *)
(* it.                                                                     *)
(***************************************************************************)
ResultadosConsulta == {"error", "filas"}

NodoDe(intencion) ==
    [inventario |-> "consulta_inventario",
     garantias |-> "consulta_garantias",
     movimientos_tecnicos |-> "consulta_movimientos_tecnicos",
     solicitudes |-> "consulta_solicitudes",
     conteos |-> "consulta_conteos",
     repuestos |-> "consulta_repuestos"][intencion]

ErrorDe(nodo, mensaje, recuperable) ==
    [nodo |-> nodo, mensaje |-> mensaje, recuperable |-> recuperable]

\* consultar_conteos reads `cursor`, a name the function never binds
\* (lines 241 and 266): the NameError is caught by its own except, so the
\* tool records an error whatever the database answers.
FallaConsulta(intencion, res) == intencion = "conteos" \/ res = "error"

Herramienta(intencion, state, res) ==
    IF FallaConsulta(intencion, res)
    THEN [state EXCEPT !.errores =
             Append(@, ErrorDe(NodoDe(intencion), "Error consultando", TRUE))]
    ELSE [state EXCEPT !.contexto_db =
             Append(@, [fuente |-> intencion, datos |-> <<"fila">>])]

(***************************************************************************)
(* app/query_executor.py: ejecutar_consultas.  `res[k]` is what the        *)
(* database does for the k-th valid intention.  The node returns a delta,  *)
(* a record of the fields it changed; `llamadas` lists the tools it         *)
(* awaited, in order, `vistos` the state each of them was handed, and      *)
(* `final` is the node's argument as the tools left it.                    *)
(***************************************************************************)
\* The for loop of lines 67-77, from the k-th valid intention on.  `state`
\* is the one object every tool mutates and returns, so `resultado` is
\* `state` after the call.
\* Mutation of BucleConsultas: the first fetch that fails ends the loop, as
\* if the tool let its exception out.
RECURSIVE BucleCortaAlFallar(_, _, _, _)
BucleCortaAlFallar(validas, res, k, acc) ==
    IF k > Len(validas) THEN acc
    ELSE LET resultado == Herramienta(validas[k], acc.state, res[k])
             sig == [state |-> resultado,
                     contexto_acumulado |->
                         acc.contexto_acumulado \o resultado.contexto_db,
                     errores_acumulados |->
                         IF resultado.errores # <<>>
                         THEN acc.errores_acumulados \o resultado.errores
                         ELSE acc.errores_acumulados,
                     llamadas |-> Append(acc.llamadas, validas[k]),
                     vistos |-> Append(acc.vistos, acc.state)]
         IN IF FallaConsulta(validas[k], res[k]) THEN sig
            ELSE BucleCortaAlFallar(validas, res, k + 1, sig)

RECURSIVE BucleConsultas(_, _, _, _)
BucleConsultas(validas, res, k, acc) ==
    IF k > Len(validas) THEN acc
    ELSE LET resultado == Herramienta(validas[k], acc.state, res[k])
         IN BucleConsultas(validas, res, k + 1,
                [state |-> resultado,
                 contexto_acumulado |->
                     acc.contexto_acumulado \o resultado.contexto_db,
                 errores_acumulados |->
                     IF resultado.errores # <<>>
                     THEN acc.errores_acumulados \o resultado.errores
                     ELSE acc.errores_acumulados,
                 llamadas |-> Append(acc.llamadas, validas[k]),
                 vistos |-> Append(acc.vistos, acc.state)])

IntencionesValidas(state) == Filtrar(EnHerramientas, state.intenciones)

ejecutar_consultas(state, res) ==
    IF tiene_error_fatal(state)
    THEN [delta |-> <<>>, llamadas |-> <<>>, vistos |-> <<>>, final |-> state]
    ELSE IF state.intenciones = <<"no_reconocida">>
    THEN [delta |-> <<>>, llamadas |-> <<>>, vistos |-> <<>>, final |-> state]
    ELSE IF IntencionesValidas(state) = <<>>
    THEN [delta |->
              [errores |-> Append(state.errores,
                  ErrorDe("ejecutor_consultas", "No hay herramientas", TRUE))],
          llamadas |-> <<>>, vistos |-> <<>>, final |-> state]
    ELSE LET fin == BucleConsultas(IntencionesValidas(state), res, 1,
                        [state |-> state,
                         contexto_acumulado |-> <<>>,
                         errores_acumulados |-> state.errores,
                         llamadas |-> <<>>,
                         vistos |-> <<>>])
         IN [delta |-> [contexto_db |-> fin.contexto_acumulado,
                        errores |-> fin.errores_acumulados],
             llamadas |-> fin.llamadas,
             vistos |-> fin.vistos,
             final |-> fin.state]

\* Mutation of Mezclar: a delta that does not name errores clears it.
MezclarBorrandoErrores(state, delta) ==
    [c \in DOMAIN state |->
        IF c \in DOMAIN delta THEN delta[c]
        ELSE IF c = "errores" THEN <<>>
        ELSE state[c]]

\* Mutation of Mezclar: the delta replaces the state, a field it does not
\* name returns to its default.
MezclarReemplazando(state, delta) ==
    [c \in DOMAIN state |->
        IF c \in DOMAIN delta THEN delta[c] ELSE AgentState(<<>>, <<>>)[c]]

\* LangGraph folds a node's delta into the state: AgentState declares no
\* reducer, so a field of the delta replaces the field of the state.
Mezclar(state, delta) ==
    [c \in DOMAIN state |-> IF c \in DOMAIN delta THEN delta[c] ELSE state[c]]

(***************************************************************************)
(* app/graph.py: the conditional edge after the classifier.                *)
(***************************************************************************)
\* Mutation of decidir_despues_de_clasificador: the edge ignores the errors.
decidir_siempre_ejecutor(state) == "ejecutor_consultas"

\* Mutation of decidir_despues_de_clasificador: only a read goes to the
\* dispatcher.
decidir_solo_lectura(state) ==
    IF tiene_error_fatal(state) \/ state.tipo_operacion # "lectura"
    THEN "generador_respuesta"
    ELSE "ejecutor_consultas"

decidir_despues_de_clasificador(state) ==
    IF tiene_error_fatal(state) THEN "generador_respuesta"
    ELSE "ejecutor_consultas"

(***************************************************************************)
(* utils/gemini.py: LLMClient.llamar with both providers configured.       *)
(* `act[i]` is provider i's "active" flag; `res[i]` is what provider i     *)
(* does if it is called: "texto", "limite" (a rate-limit error) or "error".*)
(***************************************************************************)
providers == <<"groq", "gemini">>

ResultadosProveedor == {"texto", "limite", "error"}

\* Mutation of LlamarDesde: a provider out of quota stays active.
RECURSIVE LlamarSinMarcar(_, _, _, _)
LlamarSinMarcar(i, act, res, llamados) ==
    IF i > Len(providers) THEN [ok |-> FALSE, activo |-> act, llamados |-> llamados]
    ELSE IF ~act[i] THEN LlamarSinMarcar(i + 1, act, res, llamados)
    ELSE IF res[i] = "texto"
    THEN [ok |-> TRUE, activo |-> act, llamados |-> Append(llamados, i)]
    ELSE IF res[i] = "limite"
    THEN LlamarSinMarcar(i + 1, act, res, Append(llamados, i))
    ELSE [ok |-> FALSE, activo |-> act, llamados |-> Append(llamados, i)]

\* Mutation of LlamarDesde: after any failure the loop goes on to the next
\* provider.
RECURSIVE LlamarSigueTrasError(_, _, _, _)
LlamarSigueTrasError(i, act, res, llamados) ==
    IF i > Len(providers) THEN [ok |-> FALSE, activo |-> act, llamados |-> llamados]
    ELSE IF ~act[i] THEN LlamarSigueTrasError(i + 1, act, res, llamados)
    ELSE IF res[i] = "texto"
    THEN [ok |-> TRUE, activo |-> act, llamados |-> Append(llamados, i)]
    ELSE IF res[i] = "limite"
    THEN LlamarSigueTrasError(i + 1, [act EXCEPT ![i] = FALSE], res,
                              Append(llamados, i))
    ELSE LlamarSigueTrasError(i + 1, act, res, Append(llamados, i))

\* The for loop of lines 185-216 from provider i on; falling off its end is
\* the RuntimeError of lines 219-226.  `llamados` lists the providers called.
\* Mutation of LlamarDesde: the "active" flag is written but never read.
RECURSIVE LlamarSinMirarActivo(_, _, _, _)
LlamarSinMirarActivo(i, act, res, llamados) ==
    IF i > Len(providers) THEN [ok |-> FALSE, activo |-> act, llamados |-> llamados]
    ELSE IF res[i] = "texto"
    THEN [ok |-> TRUE, activo |-> act, llamados |-> Append(llamados, i)]
    ELSE IF res[i] = "limite"
    THEN LlamarSinMirarActivo(i + 1, [act EXCEPT ![i] = FALSE], res,
                              Append(llamados, i))
    ELSE [ok |-> FALSE, activo |-> act, llamados |-> Append(llamados, i)]

RECURSIVE LlamarDesde(_, _, _, _)
LlamarDesde(i, act, res, llamados) ==
    IF i > Len(providers) THEN [ok |-> FALSE, activo |-> act, llamados |-> llamados]
    ELSE IF ~act[i] THEN LlamarDesde(i + 1, act, res, llamados)
    ELSE IF res[i] = "texto"
    THEN [ok |-> TRUE, activo |-> act, llamados |-> Append(llamados, i)]
    ELSE IF res[i] = "limite"
    THEN LlamarDesde(i + 1, [act EXCEPT ![i] = FALSE], res, Append(llamados, i))
    ELSE [ok |-> FALSE, activo |-> act, llamados |-> Append(llamados, i)]

llamar(act, res) == LlamarDesde(1, act, res, <<>>)

(***************************************************************************)
(* app/classifier.py: clasificar_pregunta.  `ok` says whether              *)
(* gemini.llamar returned; `texto` is the completion, by how it parses:    *)
(*   "no_json"    json.loads raises JSONDecodeError                        *)
(*   "no_objeto"  JSON that is no object: unpacking it into               *)
(*                ClasificacionResult raises TypeError, which no except    *)
(*                clause names                                             *)
(*   "esquema"    an object pydantic rejects (ValidationError)             *)
(*   "objeto"     {"intenciones": [...], "tipo_operacion": "..."}          *)
(* The result says whether an exception left the node.                     *)
(***************************************************************************)
Completar(forma, intenciones, tipo) ==
    [forma |-> forma, intenciones |-> intenciones, tipo_operacion |-> tipo]

\* No completion: gemini.llamar raised.
SinTexto == Completar("no_json", <<>>, "lectura")

\* Mutation of ErrorClasificador: every error of the classifier is fatal.
ErrorClasificadorFatal(state, mensaje, recuperable) ==
    Append(state.errores, ErrorDe("clasificador", mensaje, FALSE))

\* Mutation of ErrorClasificador: every error of the classifier is
\* recoverable.
ErrorClasificadorRecuperable(state, mensaje, recuperable) ==
    Append(state.errores, ErrorDe("clasificador", mensaje, TRUE))

ErrorClasificador(state, mensaje, recuperable) ==
    Append(state.errores, ErrorDe("clasificador", mensaje, recuperable))

clasificar_pregunta(state, ok, texto) ==
    IF ~ok
    THEN [state |-> [state EXCEPT !.errores =
                        ErrorClasificador(state, "RuntimeError", FALSE)],
          excepcion |-> FALSE]
    ELSE IF texto.forma = "no_json"
    THEN [state |-> [state EXCEPT !.intenciones = <<"no_reconocida">>,
                                  !.errores = ErrorClasificador(state,
                                      "El modelo no retorno JSON valido", TRUE)],
          excepcion |-> FALSE]
    ELSE IF texto.forma = "no_objeto"
    THEN [state |-> state, excepcion |-> TRUE]
    ELSE IF texto.forma = "esquema"
    THEN [state |-> [state EXCEPT !.intenciones = <<"no_reconocida">>,
                                  !.errores = ErrorClasificador(state,
                                      "Estructura de clasificacion invalida", TRUE)],
          excepcion |-> FALSE]
    ELSE IF texto.tipo_operacion \notin TipoOperacion
    THEN [state |-> [state EXCEPT !.intenciones = <<"no_reconocida">>,
                                  !.errores = ErrorClasificador(state,
                                      "Error procesando clasificacion", TRUE)],
          excepcion |-> FALSE]
    ELSE [state |-> [state EXCEPT !.intenciones = texto.intenciones,
                                  !.tipo_operacion = texto.tipo_operacion],
          excepcion |-> FALSE]

(***************************************************************************)
(* app/response_generator.py: _actualizar_memoria and generar_respuesta.   *)
(***************************************************************************)
\* Mutation of ConTurnos: only the turn of the user enters the memoria.
ConTurnoDeUsuario(state, de) ==
    Append(state.memoria, MensajeMemoria("usuario", state.pregunta_actual, de))

\* `de` is the request the state belongs to.
ConTurnos(state, de) ==
    Append(state.memoria, MensajeMemoria("usuario", state.pregunta_actual, de))
        \o (IF state.respuesta_final # <<>>
            THEN <<MensajeMemoria("agente", state.respuesta_final, de)>>
            ELSE <<>>)

\* Mutation of Limitar: the cut keeps the oldest turns.
LimitarPrimeros(memoria) ==
    IF Len(memoria) > MAX_MENSAJES_MEMORIA
    THEN SubSeq(memoria, 1, MAX_MENSAJES_MEMORIA)
    ELSE memoria

\* Mutation of Limitar: the cut keeps one turn less than the bound.
LimitarUnoMenos(memoria) ==
    IF Len(memoria) > MAX_MENSAJES_MEMORIA
    THEN Ultimos(memoria, MAX_MENSAJES_MEMORIA - 1)
    ELSE memoria

Limitar(memoria) ==
    IF Len(memoria) > MAX_MENSAJES_MEMORIA
    THEN Ultimos(memoria, MAX_MENSAJES_MEMORIA)
    ELSE memoria

actualizar_memoria(state, de) ==
    [state EXCEPT !.memoria = Limitar(ConTurnos(state, de))]

\* Mutation of RamaGenerador: the fatal error is tested before the greeting.
RamaFatalPrimero(state) ==
    IF tiene_error_fatal(state) THEN "error_fatal"
    ELSE IF es_saludo(state.pregunta_actual) THEN "saludo"
    ELSE IF state.intenciones = <<"no_reconocida">> THEN "no_reconocida"
    ELSE "normal"

\* Mutation of RamaGenerador: the branch of the unrecognized question is gone.
RamaSinNoReconocida(state) ==
    IF es_saludo(state.pregunta_actual) THEN "saludo"
    ELSE IF tiene_error_fatal(state) THEN "error_fatal"
    ELSE "normal"

\* The branch generar_respuesta takes: its ifs in the order of the code.
RamaGenerador(state) ==
    IF es_saludo(state.pregunta_actual) THEN "saludo"
    ELSE IF tiene_error_fatal(state) THEN "error_fatal"
    ELSE IF state.intenciones = <<"no_reconocida">> THEN "no_reconocida"
    ELSE "normal"

\* Mutation of generar_respuesta: the branch of the fatal error updates the
\* memoria like the other branches.
generar_respuesta_fatal_en_memoria(state, variante, ok, texto, de) ==
    IF RamaGenerador(state) = "saludo"
    THEN [state |-> actualizar_memoria(
                      [state EXCEPT !.respuesta_final = saludos_respuesta[variante]], de),
          llamo |-> FALSE]
    ELSE IF RamaGenerador(state) = "error_fatal"
    THEN [state |-> actualizar_memoria(
                      [state EXCEPT !.respuesta_final = RESPUESTA_ERROR_FATAL], de),
          llamo |-> FALSE]
    ELSE IF RamaGenerador(state) = "no_reconocida"
    THEN [state |-> actualizar_memoria(
                      [state EXCEPT !.respuesta_final = RESPUESTA_NO_RECONOCIDA], de),
          llamo |-> FALSE]
    ELSE IF ok
    THEN [state |-> actualizar_memoria([state EXCEPT !.respuesta_final = texto], de),
          llamo |-> TRUE]
    ELSE [state |-> actualizar_memoria(
                      [state EXCEPT !.respuesta_final = RESPUESTA_REINTENTO,
                                    !.errores = Append(@,
                                        ErrorDe("generador_respuesta", "RuntimeError", TRUE))],
                      de),
          llamo |-> TRUE]

\* `variante` is random.choice's pick; `ok` and `texto` are what
\* gemini.llamar does on the normal path (texto may be "", which Groq can
\* return).  `llamo` says whether gemini.llamar was called.
generar_respuesta(state, variante, ok, texto, de) ==
    IF RamaGenerador(state) = "saludo"
    THEN [state |-> actualizar_memoria(
                      [state EXCEPT !.respuesta_final = saludos_respuesta[variante]], de),
          llamo |-> FALSE]
    ELSE IF RamaGenerador(state) = "error_fatal"
    THEN [state |-> [state EXCEPT !.respuesta_final = RESPUESTA_ERROR_FATAL],
          llamo |-> FALSE]
    ELSE IF RamaGenerador(state) = "no_reconocida"
    THEN [state |-> actualizar_memoria(
                      [state EXCEPT !.respuesta_final = RESPUESTA_NO_RECONOCIDA], de),
          llamo |-> FALSE]
    ELSE IF ok
    THEN [state |-> actualizar_memoria([state EXCEPT !.respuesta_final = texto], de),
          llamo |-> TRUE]
    ELSE [state |-> actualizar_memoria(
                      [state EXCEPT !.respuesta_final = RESPUESTA_REINTENTO,
                                    !.errores = Append(@,
                                        ErrorDe("generador_respuesta", "RuntimeError", TRUE))],
                      de),
          llamo |-> TRUE]

(***************************************************************************)
(* main.py: the session store.  _sesiones is a dict: the model keeps its   *)
(* items in the dict's order, the order of insertion of the keys.          *)
(***************************************************************************)
Claves(ses) == {ses[k].id : k \in DOMAIN ses}

LugarDe(ses, id) == CHOOSE k \in DOMAIN ses : ses[k].id = id

\* _sesiones[id] = memoria: an existing key keeps its place, a new key goes
\* last.
Asignar(ses, id, memoria) ==
    IF id \in Claves(ses)
    THEN [k \in DOMAIN ses |->
             IF ses[k].id = id THEN [id |-> id, memoria |-> memoria] ELSE ses[k]]
    ELSE Append(ses, [id |-> id, memoria |-> memoria])

\* for clave in claves[:len(_sesiones) - MAX_SESIONES]: del _sesiones[clave]
Desalojar(ses) ==
    IF Len(ses) > MAX_SESIONES
    THEN SubSeq(ses, Len(ses) - MAX_SESIONES + 1, Len(ses))
    ELSE ses

\* Mutation of obtener_memoria_sesion: the new session is created under the
\* id the request supplied.
obtener_con_id_dado(ses, session_id, nuevo_id) ==
    IF session_id # Ninguno /\ session_id \in Claves(ses)
    THEN [sesiones |-> ses, session_id |-> session_id,
          memoria |-> ses[LugarDe(ses, session_id)].memoria, creada |-> FALSE]
    ELSE [sesiones |-> Desalojar(Asignar(ses, session_id, <<>>)),
          session_id |-> session_id, memoria |-> <<>>, creada |-> TRUE]

\* `nuevo_id` is str(uuid.uuid4()).  The result is the returned tuple and
\* the store the call leaves.
obtener_memoria_sesion(ses, session_id, nuevo_id) ==
    IF session_id # Ninguno /\ session_id \in Claves(ses)
    THEN [sesiones |-> ses, session_id |-> session_id,
          memoria |-> ses[LugarDe(ses, session_id)].memoria, creada |-> FALSE]
    ELSE [sesiones |-> Desalojar(Asignar(ses, nuevo_id, <<>>)),
          session_id |-> nuevo_id, memoria |-> <<>>, creada |-> TRUE]

\* Mutation of guardar_memoria_sesion: the put adds its turns to the stored
\* ones.
guardar_anadiendo(ses, session_id, memoria) ==
    IF session_id \in Claves(ses)
    THEN Asignar(ses, session_id, ses[LugarDe(ses, session_id)].memoria \o memoria)
    ELSE Asignar(ses, session_id, memoria)

\* Mutation of guardar_memoria_sesion: the put leaves the store with that
\* session alone.
guardar_unica(ses, session_id, memoria) ==
    <<[id |-> session_id, memoria |-> memoria]>>

\* Mutation of guardar_memoria_sesion: the put is lost.
guardar_nada(ses, session_id, memoria) == ses

guardar_memoria_sesion(ses, session_id, memoria) == Asignar(ses, session_id, memoria)

(***************************************************************************)
(* State.                                                                  *)
(***************************************************************************)
VARIABLES
    sesiones,       \* main.py _sesiones: <<[id, memoria], ...>> in dict order
    siguiente_id,   \* the next id uuid4 mints (ids are never minted twice)
    activo,         \* gemini.providers[i]["active"]
    pc,             \* per request: where procesar_pregunta is
    cuerpo,         \* per request: its body and header, [pregunta, session_id,
                    \* credencial]
    session_id,     \* per request: the id obtener_memoria_sesion returned
    estado,         \* per request: the AgentState of the graph run
    semilla,        \* per request: the memoria obtener_memoria_sesion returned
    nodos,          \* per request: the graph nodes run so far, in order
    llamadas_llm,   \* per request: calls of gemini.llamar, by node
    consultas,      \* per request: the fetch tools awaited, in order
    resultados,     \* per request: what the database did for each fetch
    emitidos,       \* per request: error records the stages produced
    plena,          \* per request: its memoria had nothing ever been cut
    completa,       \* per session id: the stored memoria had nothing ever been cut
    puesta,         \* per session id: the last put, [de: the request, memoria]
    antes,          \* per request: _sesiones as it was when the request arrived
    leido,          \* per request: the request whose put it read, 0 for none
    agotados,       \* per request: every provider was inactive when it arrived
    historial       \* SpecLlamar: the calls of gemini.llamar so far, in order

vars == <<sesiones, siguiente_id, activo, pc, cuerpo, session_id, estado, semilla,
          nodos, llamadas_llm, consultas, resultados, emitidos, plena, completa,
          puesta, antes, leido, agotados, historial>>

\* A request is in flight from obtener_memoria_sesion to its response.
EnVuelo(r) == pc[r] \in {"clasificador", "ejecutor_consultas",
                         "generador_respuesta", "guardar"}

\* No provider of gemini.providers is active.
TodosInactivos == \A i \in DOMAIN providers : ~activo[i]

Init ==
    /\ sesiones = <<>>
    /\ siguiente_id = 1
    /\ activo = [i \in DOMAIN providers |-> TRUE]
    /\ pc = [r \in Peticiones |-> "nueva"]
    /\ cuerpo = [r \in Peticiones |-> [pregunta |-> <<>>, session_id |-> Ninguno,
                                      credencial |-> "valida"]]
    /\ session_id = [r \in Peticiones |-> Ninguno]
    /\ estado = [r \in Peticiones |-> AgentState(<<>>, <<>>)]
    /\ semilla = [r \in Peticiones |-> <<>>]
    /\ nodos = [r \in Peticiones |-> <<>>]
    /\ llamadas_llm = [r \in Peticiones |-> <<>>]
    /\ consultas = [r \in Peticiones |-> <<>>]
    /\ resultados = [r \in Peticiones |-> <<>>]
    /\ emitidos = [r \in Peticiones |-> 0]
    /\ plena = [r \in Peticiones |-> <<>>]
    /\ completa = [i \in Peticiones |-> <<>>]
    /\ puesta = [i \in Peticiones |-> [de |-> 0, memoria |-> <<>>]]
    /\ antes = [r \in Peticiones |-> <<>>]
    /\ leido = [r \in Peticiones |-> 0]
    /\ agotados = [r \in Peticiones |-> FALSE]
    /\ historial = <<>>

(***************************************************************************)
(* main.py: procesar_pregunta, one action per stretch between awaits.      *)
(***************************************************************************)
\* main.py verificar_autenticacion: the status of the HTTPException it
\* raises, 0 when it returns.  `credencial` says how the request stands with
\* AGENT_SERVICE_SECRET: the variable unset, a header that differs from the
\* secret, or the right header.
Credenciales == {"valida", "invalida", "sin_secreto"}

\* Mutation of verificar_autenticacion: every request is let in.
verificar_nada(credencial) == 0

verificar_autenticacion(credencial) ==
    IF credencial = "sin_secreto" THEN 500
    ELSE IF credencial = "invalida" THEN 401
    ELSE 0

\* Lines 136-153: authenticate, strip and validate the question, get the
\* session, build the initial state.  AgentState validates the dicts of `memoria` back into
\* MensajeMemoria objects.  Requests are numbered in the order they arrive.
Recibir(r, frases, limite, credenciales) ==
    /\ pc[r] = "nueva"
    /\ \A q \in Peticiones : q < r => pc[q] # "nueva"
    /\ Cardinality({q \in Peticiones : EnVuelo(q)}) < limite
    /\ \E pregunta \in frases, id \in {Ninguno} \cup (1..(siguiente_id - 1)),
          credencial \in credenciales :
          /\ cuerpo' = [cuerpo EXCEPT ![r] =
                 [pregunta |-> pregunta, session_id |-> id,
                  credencial |-> credencial]]
          /\ IF verificar_autenticacion(credencial) # 0
             THEN /\ pc' = [pc EXCEPT ![r] = "no_autorizada"]
                  /\ UNCHANGED <<sesiones, siguiente_id, session_id, estado,
                                 semilla, plena, antes, leido, agotados>>
             ELSE IF pregunta = <<>>
             THEN /\ pc' = [pc EXCEPT ![r] = "rechazada"]
                  /\ UNCHANGED <<sesiones, siguiente_id, session_id, estado,
                                 semilla, plena, antes, leido, agotados>>
             ELSE LET o == obtener_memoria_sesion(sesiones, id, siguiente_id)
                  IN /\ sesiones' = o.sesiones
                     /\ siguiente_id' = IF o.creada THEN siguiente_id + 1
                                        ELSE siguiente_id
                     /\ session_id' = [session_id EXCEPT ![r] = o.session_id]
                     /\ semilla' = [semilla EXCEPT ![r] = o.memoria]
                     /\ estado' = [estado EXCEPT ![r] =
                            AgentState(pregunta,
                                Mapear(DeDict, Mapear(model_dump, o.memoria)))]
                     /\ plena' = [plena EXCEPT ![r] =
                            IF o.creada THEN <<>> ELSE completa[o.session_id]]
                     /\ antes' = [antes EXCEPT ![r] = sesiones]
                     /\ agotados' = [agotados EXCEPT ![r] = TodosInactivos]
                     /\ leido' = [leido EXCEPT ![r] =
                            IF o.creada THEN 0 ELSE puesta[o.session_id].de]
                     /\ pc' = [pc EXCEPT ![r] = "clasificador"]
    /\ UNCHANGED <<activo, nodos, llamadas_llm, consultas, resultados, emitidos,
                   completa, puesta, historial>>

\* Node "clasificador" and the conditional edge after it.  An exception that
\* leaves the node ends the request without a response body (HTTP 500).
Clasificador(r, proveedores, textos) ==
    /\ pc[r] = "clasificador"
    /\ \E res \in [DOMAIN providers -> proveedores] :
       \E texto \in IF llamar(activo, res).ok THEN textos ELSE {SinTexto} :
          LET l == llamar(activo, res)
              c == clasificar_pregunta(estado[r], l.ok, texto)
          IN /\ activo' = l.activo
             /\ llamadas_llm' = [llamadas_llm EXCEPT ![r] = Append(@, "clasificador")]
             /\ nodos' = [nodos EXCEPT ![r] = Append(@, "clasificador")]
             /\ IF c.excepcion
                THEN /\ pc' = [pc EXCEPT ![r] = "error"]
                     /\ UNCHANGED <<estado, emitidos>>
                ELSE /\ estado' = [estado EXCEPT ![r] = c.state]
                     /\ emitidos' = [emitidos EXCEPT ![r] =
                            @ + IF l.ok /\ texto.forma = "objeto"
                                       /\ texto.tipo_operacion \in TipoOperacion
                                THEN 0 ELSE 1]
                     /\ pc' = [pc EXCEPT ![r] = decidir_despues_de_clasificador(c.state)]
    /\ UNCHANGED <<sesiones, siguiente_id, cuerpo, session_id, semilla, consultas,
                   resultados, plena, completa, puesta, antes, leido, agotados,
                   historial>>

\* How many of the fetches of a run fail.
Fallidas(validas, res) ==
    Cardinality({k \in DOMAIN validas : FallaConsulta(validas[k], res[k])})

\* Node "ejecutor_consultas".
Ejecutor(r, posibles) ==
    /\ pc[r] = "ejecutor_consultas"
    /\ \E res \in [DOMAIN IntencionesValidas(estado[r]) -> posibles] :
          LET e == ejecutar_consultas(estado[r], res)
          IN /\ estado' = [estado EXCEPT ![r] = Mezclar(@, e.delta)]
             /\ consultas' = [consultas EXCEPT ![r] = e.llamadas]
             /\ resultados' = [resultados EXCEPT ![r] = res]
             /\ emitidos' = [emitidos EXCEPT ![r] =
                    @ + IF tiene_error_fatal(estado[r]) THEN 0
                        ELSE IF estado[r].intenciones = <<"no_reconocida">> THEN 0
                        ELSE IF IntencionesValidas(estado[r]) = <<>> THEN 1
                        ELSE Fallidas(IntencionesValidas(estado[r]), res)]
    /\ nodos' = [nodos EXCEPT ![r] = Append(@, "ejecutor_consultas")]
    /\ pc' = [pc EXCEPT ![r] = "generador_respuesta"]
    /\ UNCHANGED <<sesiones, siguiente_id, activo, cuerpo, session_id, semilla,
                   llamadas_llm, plena, completa, puesta, antes, leido, agotados,
                   historial>>

\* Node "generador_respuesta", the finish point of the graph.
Generador(r, variantes, proveedores, textos) ==
    /\ pc[r] = "generador_respuesta"
    /\ \E variante \in IF RamaGenerador(estado[r]) = "saludo" THEN variantes
                          ELSE {1},
          res \in IF RamaGenerador(estado[r]) = "normal"
                  THEN [DOMAIN providers -> proveedores]
                  ELSE {[i \in DOMAIN providers |-> "texto"]} :
       \E texto \in IF RamaGenerador(estado[r]) = "normal" /\ llamar(activo, res).ok
                     THEN textos ELSE {<<>>} :
          LET l == llamar(activo, res)
              g == generar_respuesta(estado[r], variante, l.ok, texto, r)
          IN /\ estado' = [estado EXCEPT ![r] = g.state]
             /\ activo' = IF g.llamo THEN l.activo ELSE activo
             /\ llamadas_llm' = [llamadas_llm EXCEPT ![r] =
                    IF g.llamo THEN Append(@, "generador_respuesta") ELSE @]
             /\ emitidos' = [emitidos EXCEPT ![r] =
                    @ + IF g.llamo /\ ~l.ok THEN 1 ELSE 0]
             /\ plena' = [plena EXCEPT ![r] =
                    IF RamaGenerador(estado[r]) = "error_fatal" THEN @
                    ELSE ConTurnos([g.state EXCEPT !.memoria = plena[r]], r)]
    /\ nodos' = [nodos EXCEPT ![r] = Append(@, "generador_respuesta")]
    /\ pc' = [pc EXCEPT ![r] = "guardar"]
    /\ UNCHANGED <<sesiones, siguiente_id, cuerpo, session_id, semilla, consultas,
                   resultados, completa, puesta, antes, leido, agotados,
                   historial>>

\* The locals of a handler that has returned.
Soltar(r) ==
    /\ estado' = [estado EXCEPT ![r] = AgentState(<<>>, <<>>)]
    /\ semilla' = [semilla EXCEPT ![r] = <<>>]
    /\ nodos' = [nodos EXCEPT ![r] = <<>>]
    /\ llamadas_llm' = [llamadas_llm EXCEPT ![r] = <<>>]
    /\ consultas' = [consultas EXCEPT ![r] = <<>>]
    /\ resultados' = [resultados EXCEPT ![r] = <<>>]
    /\ emitidos' = [emitidos EXCEPT ![r] = 0]
    /\ plena' = [plena EXCEPT ![r] = <<>>]
    /\ antes' = [antes EXCEPT ![r] = <<>>]
    /\ leido' = [leido EXCEPT ![r] = 0]
    /\ agotados' = [agotados EXCEPT ![r] = FALSE]

\* Lines 168-175: a MensajeMemoria is kept, a dict is turned into one.
MemoriaActualizada(memoria) ==
    Mapear(LAMBDA msg : IF "clase" \in DOMAIN msg THEN msg ELSE DeDict(msg), memoria)

\* Lines 168-185: put the session back and respond.  The handler returns:
\* what it held of the request is gone, the response is with the client.
Guardar(r) ==
    /\ pc[r] = "guardar"
    /\ sesiones' = guardar_memoria_sesion(sesiones, session_id[r],
                       MemoriaActualizada(estado[r].memoria))
    /\ completa' = [completa EXCEPT ![session_id[r]] = plena[r]]
    /\ puesta' = [puesta EXCEPT ![session_id[r]] =
                     [de |-> r, memoria |-> MemoriaActualizada(estado[r].memoria)]]
    /\ pc' = [pc EXCEPT ![r] = "fin"]
    /\ Soltar(r)
    /\ UNCHANGED <<siguiente_id, activo, cuerpo, session_id, historial>>

(***************************************************************************)
(* Inputs.                                                                 *)
(***************************************************************************)
\* Sequences over S of length at most n.
RECURSIVE Listas(_, _)
Listas(S, n) ==
    IF n = 0 THEN {<<>>}
    ELSE Listas(S, n - 1) \cup {Append(l, x) : l \in Listas(S, n - 1), x \in S}

\* Questions after strip(): not a greeting, a greeting, the empty one.
Frases == {<<"stock">>}
FrasesTodas == {<<"stock">>, <<"hola">>, <<>>}

\* Completions of the classifier's call.
TextosClasificador == {Completar("objeto", <<"inventario">>, "lectura")}

TextosClasificadorTodos ==
    {Completar(f, <<>>, "lectura") : f \in {"no_json", "no_objeto", "esquema"}}
    \cup {Completar("objeto", l, t) :
             l \in Listas(CategoriasLLM, MaxIntenciones),
             t \in {"lectura", "insertar", "otro"}}

\* Completions of the generator's call: a text, or "".
TextosGenerador == {<<"respuesta">>, <<>>}

(***************************************************************************)
(* Specifications.                                                         *)
(***************************************************************************)
\* The service: requests arrive, run concurrently and share the store.  The
\* inputs are few: one question, one completion of the classifier, whose
\* provider answers or fails without running out of quota, a fetch that
\* succeeds and a generator whose provider answers.
Next ==
    \E r \in Peticiones :
        \/ Recibir(r, Frases, MaxEnVuelo, {"valida"})
        \/ Clasificador(r, {"texto", "error"}, TextosClasificador)
        \/ Ejecutor(r, {"filas"})
        \/ Generador(r, {1}, {"texto"}, {<<"respuesta">>})
        \/ Guardar(r)

Spec == Init /\ [][Next]_vars

\* Requests through the graph one after the other, over every completion,
\* every behaviour of the providers and every outcome of every fetch.
NextPipeline ==
    \E r \in 1..MaxSeguidas :
        \/ Recibir(r, FrasesTodas, 1, Credenciales)
        \/ Clasificador(r, ResultadosProveedor, TextosClasificadorTodos)
        \/ Ejecutor(r, ResultadosConsulta)
        \/ Generador(r, DOMAIN saludos_respuesta, ResultadosProveedor, TextosGenerador)
        \/ Guardar(r)

SpecPipeline == Init /\ [][NextPipeline]_vars

\* Words of a question, lower-cased: a greeting of the list, a word that has
\* one inside it, a word that has none.
Palabras == {"hola", "holanda", "stock"}

FrasesSaludo == Listas(Palabras, MaxPalabras) \ {<<>>}

\* One request through the graph for every question of up to MaxPalabras
\* words; the classifier and the generator get their completions and the
\* fetch its rows.
NextSaludo ==
    \E r \in {1} :
        \/ Recibir(r, FrasesSaludo, 1, {"valida"})
        \/ Clasificador(r, {"texto"}, TextosClasificador)
        \/ Ejecutor(r, {"filas"})
        \/ Generador(r, DOMAIN saludos_respuesta, {"texto"}, {<<"respuesta">>})
        \/ Guardar(r)

SpecSaludo == Init /\ [][NextSaludo]_vars

\* One call of gemini.llamar in the process of the service, whatever stage
\* makes it: `res` is what each provider does if it is called.
Llamar(res) ==
    /\ Len(historial) < MaxLlamadas
    /\ LET l == llamar(activo, res)
       IN /\ activo' = l.activo
          /\ historial' = Append(historial,
                 [activo |-> activo, res |-> res, ok |-> l.ok,
                  llamados |-> l.llamados])
    /\ UNCHANGED <<sesiones, siguiente_id, pc, cuerpo, session_id, estado, semilla,
                   nodos, llamadas_llm, consultas, resultados, emitidos, plena,
                   completa, puesta, antes, leido, agotados>>

\* The LLM client alone: a sequence of calls over every behaviour of the
\* providers.
NextLlamar == \E res \in [DOMAIN providers -> ResultadosProveedor] : Llamar(res)

SpecLlamar == Init /\ [][NextLlamar]_vars

(***************************************************************************)
(* Properties.                                                             *)
(***************************************************************************)
\* The dispatcher node of request r has just run.
TrasEjecutor(r) ==
    /\ pc[r] = "generador_respuesta"
    /\ nodos[r] = <<"clasificador", "ejecutor_consultas">>

\* The graph run of request r has returned and its result is not yet put.
TrasGrafo(r) == pc[r] = "guardar"

\* The classifier of request r recorded a fatal error.
FatalDelClasificador(r) ==
    \E k \in DOMAIN estado[r].errores :
        /\ estado[r].errores[k].nodo = "clasificador"
        /\ ~estado[r].errores[k].recuperable

FuentesDe(contexto) == {contexto[k].fuente : k \in DOMAIN contexto}

\* C1: when exactly one of N >= 2 mapped fetches fails, whatever its place in
\* the list, every fetch was awaited and each category whose fetch succeeded
\* has a block in the contexto_db the dispatcher returned.
C1_AislamientoDeFallos ==
    \A r \in Peticiones :
        LET validas == IntencionesValidas(estado[r])
        IN (TrasEjecutor(r) /\ Len(validas) >= 2
                /\ Fallidas(validas, resultados[r]) = 1)
           => /\ consultas[r] = validas
              /\ \A k \in DOMAIN validas :
                    ~FallaConsulta(validas[k], resultados[r][k])
                    => validas[k] \in FuentesDe(estado[r].contexto_db)

\* C1, its case: two mapped categories, the first fetch failed, the second
\* returned rows.
C1_Testigo ==
    \E r \in Peticiones :
        /\ TrasEjecutor(r)
        /\ IntencionesValidas(estado[r]) = <<"inventario", "garantias">>
        /\ resultados[r] = <<"error", "filas">>

\* C2: the errores of the final state holds as many records as the
\* classifier, the fetches, the dispatcher and the generator produced: none
\* lost, none twice.
C2_SinPerdidaNiDuplicacion ==
    \A r \in Peticiones :
        TrasGrafo(r) => Len(estado[r].errores) = emitidos[r]

\* C3: after one run of the dispatcher contexto_db holds at most one block
\* per fuente (stated for lists that name no category twice).
C3_UnBloquePorFuente ==
    \A r \in Peticiones :
        LET validas == IntencionesValidas(estado[r])
            contexto == estado[r].contexto_db
        IN (TrasEjecutor(r)
                /\ \A j, k \in DOMAIN validas : validas[j] = validas[k] => j = k)
           => \A j, k \in DOMAIN contexto :
                  contexto[j].fuente = contexto[k].fuente => j = k

\* C4: the dispatcher node runs in a request if and only if the state holds
\* no fatal error when the classifier finishes; with a fatal error the run
\* goes straight to the generator and no fetch is awaited.
C4_RutaTrasClasificador ==
    \A r \in Peticiones :
        /\ pc[r] = "ejecutor_consultas" => ~FatalDelClasificador(r)
        /\ pc[r] \in {"generador_respuesta", "guardar"}
           => /\ "ejecutor_consultas" \in Rango(nodos[r])
                    <=> ~FatalDelClasificador(r)
              /\ FatalDelClasificador(r) => consultas[r] = <<>>

\* C4, its case: a run that ended with a fatal classifier error and went
\* from the classifier to the generator.
C4_Testigo ==
    \E r \in Peticiones :
        /\ TrasGrafo(r)
        /\ FatalDelClasificador(r)
        /\ nodos[r] = <<"clasificador", "generador_respuesta">>

\* The memoria the store holds for the session of request r.
Guardada(ses, r) == ses[LugarDe(ses, session_id[r])].memoria

\* Request r puts its session back and responds in this step.
Responde(r) == pc[r] = "guardar" /\ pc'[r] = "fin"

\* The outcome of the short circuit: the apology, the memoria of the state
\* as obtener_memoria_sesion returned it, and the same memoria in the store
\* once the request has put it back.
SalidaFatal(r) ==
    /\ estado[r].respuesta_final = RESPUESTA_ERROR_FATAL
    /\ estado[r].memoria = semilla[r]
    /\ Guardada(sesiones', r) = semilla[r]

C7_SaludoSinLLM ==
    \A r \in Peticiones :
        (cuerpo[r].pregunta = <<"hola">> /\ EnVuelo(r))
        => /\ llamadas_llm[r] = <<>>
           /\ TrasGrafo(r) => estado[r].respuesta_final \in Rango(saludos_respuesta)

\* The classifier left the categories ["no_reconocida"] and the operation
\* kind lectura.
NoReconocida(r) ==
    /\ estado[r].intenciones = <<"no_reconocida">>
    /\ estado[r].tipo_operacion = "lectura"

\* The outcome of the unrecognized path: the clarification, the turn of the
\* user and then the turn of the agent appended, no fetch awaited.
SalidaNoReconocida(r) ==
    /\ estado[r].respuesta_final = RESPUESTA_NO_RECONOCIDA
    /\ estado[r].memoria = Limitar(semilla[r] \o
           <<MensajeMemoria("usuario", estado[r].pregunta_actual, r),
             MensajeMemoria("agente", RESPUESTA_NO_RECONOCIDA, r)>>)
    /\ consultas[r] = <<>>

C6_CotaDeMemoria ==
    \A k \in DOMAIN sesiones :
        /\ Len(sesiones[k].memoria) <= MAX_MENSAJES_MEMORIA
        /\ sesiones[k].memoria =
               Ultimos(completa[sesiones[k].id], MAX_MENSAJES_MEMORIA)

\* C6, its case: a stored session whose requests produced more turns than
\* the bound, so that a cut has happened.
C6_Testigo ==
    \E k \in DOMAIN sesiones :
        /\ Len(completa[sesiones[k].id]) > MAX_MENSAJES_MEMORIA
        /\ sesiones[k].memoria # <<>>

\* Request r2 arrives in this step and replays the id that request r1, sent
\* without one and now answered, was given; r1 was the last to put it.
Repite(r2, r1) ==
    /\ pc[r2] = "nueva" /\ pc'[r2] = "clasificador"
    /\ pc[r1] = "fin"
    /\ cuerpo[r1].session_id = Ninguno
    /\ cuerpo'[r2].session_id = session_id[r1]
    /\ puesta[session_id[r1]].de = r1

\* Request r2 starts on the session of r1 with the memoria r1 ended with.
Continua(r2, r1) ==
    /\ session_id'[r2] = session_id[r1]
    /\ semilla'[r2] = puesta[session_id[r1]].memoria
    /\ estado'[r2].memoria = puesta[session_id[r1]].memoria

\* A request sent without a session id has one once it has its session.
ConSesion(r) ==
    (pc[r] \notin {"nueva", "rechazada", "no_autorizada"}
        /\ cuerpo[r].session_id = Ninguno)
    => session_id[r] # Ninguno

\* C9: a request with session_id = null is given a session id, and a later
\* request that replays that id while the store still holds the session
\* starts with the memoria the earlier request ended with.
C9_ContinuidadDeSesion ==
    /\ [](\A r \in Peticiones : ConSesion(r))
    /\ [][\A r1, r2 \in Peticiones :
             (Repite(r2, r1) /\ session_id[r1] \in Claves(sesiones))
             => Continua(r2, r1)]_vars

\* C9 as the claim words it, whether or not the session is still stored: a
\* session evicted in between is not continued.
C9_ContinuidadDeSesion_Siempre ==
    /\ [](\A r \in Peticiones : ConSesion(r))
    /\ [][\A r1, r2 \in Peticiones : Repite(r2, r1) => Continua(r2, r1)]_vars

\* C9, its case: a request that replayed the id given to an answered request
\* and started with the turns of that request.
C9_Testigo ==
    \E r1, r2 \in Peticiones :
        /\ pc[r1] = "fin" /\ cuerpo[r1].session_id = Ninguno
        /\ pc[r2] = "clasificador"
        /\ cuerpo[r2].session_id = session_id[r1]
        /\ puesta[session_id[r1]].de = r1
        /\ semilla[r2] # <<>>
        /\ semilla[r2] = puesta[session_id[r1]].memoria

\* C10: the store never tracks more than MAX_SESIONES sessions, whatever the
\* interleaving of the requests.
C10_TopeDeSesiones == Len(sesiones) <= MAX_SESIONES

\* Request r is the last one that arrived.
Ultima(r) == \A q \in Peticiones : q > r => pc[q] = "nueva"

\* C11: a request that fails after obtaining its session and before its put
\* leaves the session store exactly as it was before the request started
\* (no other request having arrived since).
C11_AlmacenIntacto ==
    \A r \in Peticiones :
        (pc[r] = "error" /\ Ultima(r)) => sesiones = antes[r]

\* Call k of the history called provider i and it failed for quota.
SinCuota(k, i) ==
    /\ i \in Rango(historial[k].llamados)
    /\ historial[k].res[i] = "limite"

\* The providers after i that were active when call k began.
ActivosTras(k, i) == {n \in DOMAIN providers : n > i /\ historial[k].activo[n]}

ActivoTras(k) == IF k < Len(historial) THEN historial[k + 1].activo ELSE activo

\* Call k of the history called provider i and it failed, not for quota.
OtroFallo(k, i) ==
    /\ i \in Rango(historial[k].llamados)
    /\ historial[k].res[i] = "error"

\* C13: when a provider fails with an error that is not of the quota class,
\* llamar raises at once: the call fails, the failing provider is the last
\* one it called, and that provider's active flag is as it was.
C13_OtroFalloInmediato ==
    \A k \in DOMAIN historial : \A i \in DOMAIN providers :
        OtroFallo(k, i)
        => /\ ~historial[k].ok
           /\ historial[k].llamados[Len(historial[k].llamados)] = i
           /\ ActivoTras(k)[i] = historial[k].activo[i]
           /\ ActivoTras(k)[i]

\* C13, its case: groq failed with another error in a call where gemini was
\* active and would have answered.
C13_Testigo ==
    \E k \in DOMAIN historial :
        /\ OtroFallo(k, 1)
        /\ historial[k].activo[2]
        /\ historial[k].res[2] = "texto"
        /\ historial[k].llamados = <<1>>

\* C14: whatever the completion call and the fetches do, the classifier, the
\* dispatcher and the generator return normally: no exception leaves a node
\* of the graph.
C14_NingunaEtapaLanza ==
    \A r \in Peticiones : pc[r] # "error"

\* The orders of n fetches.
Permutaciones(n) ==
    {p \in [1..n -> 1..n] : \A a, b \in 1..n : p[a] = p[b] => a = b}

\* Sequence s in the order p.
Reordenar(s, p) == [k \in DOMAIN s |-> s[p[k]]]

\* How many times x is in s.
Veces(s, x) == Cardinality({k \in DOMAIN s : s[k] = x})

\* a and b hold the same elements with the same multiplicities.
MismaColeccion(a, b) ==
    \A x \in Rango(a) \cup Rango(b) : Veces(a, x) = Veces(b, x)

\* The state the dispatcher of request r was given, its fetches in the order
\* p.  The classifier leaves two or more categories only when it recorded no
\* error, so the dispatcher started with no block and no error.
EnOtroOrden(r, p) ==
    [estado[r] EXCEPT !.intenciones = Reordenar(IntencionesValidas(estado[r]), p),
                      !.contexto_db = <<>>,
                      !.errores = <<>>]

\* C15: for categories all mapped and all different, and a fixed outcome of
\* each fetch, the contexto_db and the errores the dispatcher produced hold
\* the same blocks and the same error records, each as many times, as the
\* ones it produces with the fetches in any other order.
C15_OrdenIndiferente ==
    \A r \in Peticiones :
        LET validas == IntencionesValidas(estado[r])
        IN (TrasEjecutor(r) /\ Len(validas) >= 2
                /\ estado[r].intenciones = validas
                /\ \A j, k \in DOMAIN validas : validas[j] = validas[k] => j = k)
           => \A p \in Permutaciones(Len(validas)) :
                 LET otro == ejecutar_consultas(EnOtroOrden(r, p),
                                                Reordenar(resultados[r], p)).delta
                 IN /\ MismaColeccion(otro.contexto_db, estado[r].contexto_db)
                    /\ MismaColeccion(otro.errores, estado[r].errores)

\* Request r gets its session in this step.
Llega(r) == pc[r] = "nueva" /\ pc'[r] = "clasificador"

\* The id supplied with request r, read in the step it arrives, is one the
\* store holds.
Conocido(r) ==
    /\ cuerpo'[r].session_id # Ninguno
    /\ cuerpo'[r].session_id \in Claves(sesiones)

\* Request r is given an id just minted: not the one supplied, none the store
\* holds, none given to another request, and an empty memoria.
Recien(r) ==
    /\ session_id'[r] # Ninguno
    /\ session_id'[r] # cuerpo'[r].session_id
    /\ session_id'[r] \notin Claves(sesiones)
    /\ \A q \in Peticiones : q # r => session_id[q] # session_id'[r]
    /\ semilla'[r] = <<>>

\* C16: the session_id of the response is always populated: it is the
\* supplied id when the store knows it, and a freshly minted id with an empty
\* initial memoria when the supplied id is absent or unknown; the request
\* keeps that id until it responds.
C16_SesionEnRespuesta ==
    /\ [][\A r \in Peticiones :
             Llega(r) => IF Conocido(r)
                         THEN session_id'[r] = cuerpo'[r].session_id
                         ELSE Recien(r)]_vars
    /\ [][\A r \in Peticiones :
             EnVuelo(r)
             => session_id'[r] = session_id[r] /\ session_id[r] # Ninguno]_vars

\* C16, its case: an answered request that supplied an id the store did not
\* know and was given another.
C16_Testigo ==
    \E r \in Peticiones :
        /\ pc[r] = "fin"
        /\ cuerpo[r].session_id # Ninguno
        /\ session_id[r] # cuerpo[r].session_id

\* The two runs of the graph: with the dispatcher and without it.
Recorridos == {<<"clasificador", "ejecutor_consultas", "generador_respuesta">>,
               <<"clasificador", "generador_respuesta">>}

\* s is the beginning of t.
Prefijo(s, t) == Len(s) <= Len(t) /\ SubSeq(t, 1, Len(s)) = s

\* The graph run of request r is over: ainvoke returned or raised.
GrafoAcabado(r) == pc[r] \in {"guardar", "error"}

\* C17: every request that enters the graph runs its nodes in the order
\* classifier, dispatcher or none, generator, and its run ends with the
\* generator having run exactly once, the last of all.
C17_OrdenDeEtapas ==
    \A r \in Peticiones :
        /\ \E t \in Recorridos : Prefijo(nodos[r], t)
        /\ GrafoAcabado(r) => nodos[r] \in Recorridos

\* Request r1 put the session of request r2 after r2 had read it: the two ran
\* at the same time on one session, and r1 finished first.
Adelantada(r1, r2) ==
    /\ pc[r2] = "guardar"
    /\ r1 # r2
    /\ puesta[session_id[r2]].de = r1
    /\ leido[r2] # r1

\* The turns request r appended.
TurnosDe(memoria, r) == {k \in DOMAIN memoria : memoria[k].de = r}

\* C18: of two concurrent requests on one session id, the one that puts last
\* replaces the whole record: once both have completed, the stored memoria is
\* the final memoria of the last to put, and the turns the other appended are
\* not in it.
C18_UltimoEnGuardarGana ==
    [][\A r1, r2 \in Peticiones :
          (Adelantada(r1, r2) /\ Responde(r2))
          => /\ Guardada(sesiones', r2) = estado[r2].memoria
             /\ TurnosDe(Guardada(sesiones', r2), r1) = {}]_vars

\* C18, its case: two requests read the same session, one has put its two
\* turns and the other, which appended two of its own, is about to put.
C18_Testigo ==
    \E r1, r2 \in Peticiones :
        /\ Adelantada(r1, r2)
        /\ session_id[r1] = session_id[r2]
        /\ TurnosDe(puesta[session_id[r2]].memoria, r1) # {}
        /\ session_id[r2] \in Claves(sesiones)
        /\ TurnosDe(Guardada(sesiones, r2), r1) # {}
        /\ TurnosDe(estado[r2].memoria, r2) # {}

\* No other request has put the session of request r since r read it.
SinOtraPuesta(r) == puesta[session_id[r]].de = leido[r]

\* What request r alone makes of the memoria it read: it leaves it, or adds
\* its own turns and cuts.
ASolas(r) ==
    \/ estado[r].memoria = semilla[r]
    \/ /\ TurnosDe(estado[r].memoria, r) # {}
       /\ \E n \in 1..2 :
             /\ Len(estado[r].memoria) >= n
             /\ \A k \in DOMAIN estado[r].memoria :
                   (k > Len(estado[r].memoria) - n) <=> estado[r].memoria[k].de = r
             /\ estado[r].memoria =
                    Limitar(semilla[r] \o
                            SubSeq(estado[r].memoria,
                                   Len(estado[r].memoria) - n + 1,
                                   Len(estado[r].memoria)))

\* C19: requests on different sessions do not contend.  While a request is
\* in flight the store keeps for its session the memoria it read, whatever
\* the requests on other sessions do (the session not being evicted by the
\* creation of others); getting a known session writes nothing; and its put
\* stores what the request alone made of the memoria it read and leaves
\* every other session as it is.
C19_SesionesDistintas ==
    /\ [](\A r \in Peticiones :
             (EnVuelo(r) /\ SinOtraPuesta(r) /\ session_id[r] \in Claves(sesiones))
             => Guardada(sesiones, r) = semilla[r])
    /\ [][\A r \in Peticiones :
             /\ (Llega(r) /\ Conocido(r)) => sesiones' = sesiones
             /\ Responde(r)
                => /\ ASolas(r)
                   /\ Guardada(sesiones', r) = estado[r].memoria
                   /\ \A k \in DOMAIN sesiones :
                         sesiones[k].id # session_id[r]
                         => /\ k \in DOMAIN sesiones'
                            /\ sesiones'[k] = sesiones[k]]_vars

\* C19, its case: two requests on two sessions the store already held ran at
\* the same time; the one that arrived last has put, the other is about to.
C19_Testigo ==
    \E ra, rb \in Peticiones :
        /\ ra > rb
        /\ pc[ra] = "fin" /\ pc[rb] = "guardar"
        /\ cuerpo[ra].session_id = session_id[ra]
        /\ cuerpo[rb].session_id = session_id[rb]
        /\ session_id[ra] # session_id[rb]
        /\ puesta[session_id[ra]].de = ra
        /\ {session_id[ra], session_id[rb]} \subseteq Claves(sesiones)
        /\ semilla[rb] # <<>>
        /\ TurnosDe(estado[rb].memoria, rb) # {}

\* The memoria of request r is the one it read plus its turn and the turn of
\* the agent with its answer, cut.
ConDosTurnos(r) ==
    estado[r].memoria =
        Limitar(semilla[r] \o
                <<MensajeMemoria("usuario", estado[r].pregunta_actual, r),
                  MensajeMemoria("agente", estado[r].respuesta_final, r)>>)

\* The generator of request r called the completion.
GeneradorLlamo(r) == "generador_respuesta" \in Rango(llamadas_llm[r])

\* C20: the generator answers by the first branch that matches, in the order
\* greeting, fatal error, categories ["no_reconocida"], normal path: a
\* greeting gets a greeting variant and its turns enter the memoria whatever
\* the errors and the categories of the state; the fatal error comes next,
\* then the unrecognized question, and only then is the completion called.
C20_PrioridadDeRamas ==
    \A r \in Peticiones :
        TrasGrafo(r)
        => IF es_saludo(estado[r].pregunta_actual)
           THEN /\ estado[r].respuesta_final \in Rango(saludos_respuesta)
                /\ ConDosTurnos(r)
                /\ ~GeneradorLlamo(r)
           ELSE IF tiene_error_fatal(estado[r])
           THEN /\ estado[r].respuesta_final = RESPUESTA_ERROR_FATAL
                /\ estado[r].memoria = semilla[r]
                /\ ~GeneradorLlamo(r)
           ELSE IF estado[r].intenciones = <<"no_reconocida">>
           THEN /\ estado[r].respuesta_final = RESPUESTA_NO_RECONOCIDA
                /\ ConDosTurnos(r)
                /\ ~GeneradorLlamo(r)
           ELSE /\ GeneradorLlamo(r)
                /\ estado[r].respuesta_final
                       \in TextosGenerador \cup {RESPUESTA_REINTENTO}

\* C20, its case: a greeting whose classification failed fatally, answered
\* with a greeting and entered in the memoria.
C20_Testigo ==
    \E r \in Peticiones :
        /\ TrasGrafo(r)
        /\ es_saludo(estado[r].pregunta_actual)
        /\ FatalDelClasificador(r)
        /\ estado[r].respuesta_final \in Rango(saludos_respuesta)
        /\ Len(estado[r].memoria) = Len(semilla[r]) + 2

\* Request r was answered by the greeting branch.
RamaSaludo(r) == estado[r].respuesta_final \in Rango(saludos_respuesta)

\* One of the words of the question is a greeting of the list.
TienePalabraSaludo(pregunta) == \E k \in DOMAIN pregunta : pregunta[k] \in saludos

\* C21: a question is answered by the greeting branch if and only if one of
\* its words is a recognized greeting and it has at most 5 words; a question
\* of more than 5 words is never answered as a greeting.
C21_DeteccionDeSaludo ==
    \A r \in Peticiones :
        TrasGrafo(r)
        => (RamaSaludo(r)
            <=> (TienePalabraSaludo(estado[r].pregunta_actual)
                 /\ Len(estado[r].pregunta_actual) <= 5))

\* The categories of the state that have no fetch tool, the sentinel aside.
SinHerramienta(state) ==
    {state.intenciones[k] : k \in DOMAIN state.intenciones}
        \ (Rango(HERRAMIENTAS) \cup {"no_reconocida"})

\* The error records of a node in a sequence of errors.
ErroresDe(errores, nodo) == {k \in DOMAIN errores : errores[k].nodo = nodo}

\* C22: whenever the categories of the classifier include one with no fetch
\* tool, with or without mapped ones beside it (stated for lists without the
\* sentinel), no tool is called for it and the dispatcher records exactly one
\* recoverable error for the unmapped categories.
C22_CategoriasSinHerramienta ==
    \A r \in Peticiones :
        (TrasEjecutor(r) /\ SinHerramienta(estado[r]) # {}
            /\ "no_reconocida" \notin Rango(estado[r].intenciones))
        => /\ Rango(consultas[r]) \cap SinHerramienta(estado[r]) = {}
           /\ Cardinality(ErroresDe(estado[r].errores, "ejecutor_consultas")) = 1
           /\ \A k \in ErroresDe(estado[r].errores, "ejecutor_consultas") :
                 estado[r].errores[k].recuperable

\* The records a dispatcher writes in its own name; the source names the
\* node "ejecutor_consultas".
NodosDelDespachador == {"ejecutor_consultas", "query_dispatcher"}

SenalesSinDatos(errores) ==
    {k \in DOMAIN errores : errores[k].nodo \in NodosDelDespachador}

\* C23: when the fetches of a dispatcher run have all finished and contexto_db
\* is still empty, the dispatcher has appended one recoverable error of its
\* own that signals that no category returned data.
C23_SenalSinDatos ==
    \A r \in Peticiones :
        (TrasEjecutor(r) /\ consultas[r] # <<>> /\ estado[r].contexto_db = <<>>)
        => /\ Cardinality(SenalesSinDatos(estado[r].errores)) = 1
           /\ \A k \in SenalesSinDatos(estado[r].errores) :
                 estado[r].errores[k].recuperable

\* Request r takes the step of the dispatcher.
Despacha(r) == pc[r] = "ejecutor_consultas" /\ pc'[r] = "generador_respuesta"

\* C24: every fetch of one dispatch is handed the state as it was when the
\* dispatcher started, and the fetches leave that state as it was: what a
\* fetch reads and returns does not depend on what a sibling fetch wrote.
C24_InstantaneaDeSoloLectura ==
    [][\A r \in Peticiones :
          Despacha(r)
          => LET e == ejecutar_consultas(estado[r], resultados'[r])
             IN /\ \A k \in DOMAIN e.vistos : e.vistos[k] = estado[r]
                /\ e.final = estado[r]]_vars

\* The categories of request r hold the sentinel.
ConCentinela(r) == "no_reconocida" \in Rango(estado[r].intenciones)

\* C25: whenever the categories of the classifier hold the sentinel
\* "no_reconocida", alone or beside other categories, no fetch tool is
\* called in that request.
C25_CentinelaSinConsultas ==
    \A r \in Peticiones : ConCentinela(r) => consultas[r] = <<>>

\* The completions the classifier cannot turn into a classification: text
\* that is not JSON, an object that fails ClasificacionResult, an object
\* whose tipo_operacion is no member of TipoOperacion.
TextosFallidos ==
    {t \in TextosClasificadorTodos :
        \/ t.forma \in {"no_json", "esquema"}
        \/ t.forma = "objeto" /\ t.tipo_operacion \notin TipoOperacion}

\* errores is `antes` with exactly one record of the classifier appended,
\* with the given recuperable.
UnErrorClasificador(antes_, errores, recuperable) ==
    /\ Len(errores) = Len(antes_) + 1
    /\ Prefijo(antes_, errores)
    /\ errores[Len(errores)].nodo = "clasificador"
    /\ errores[Len(errores)].recuperable = recuperable

\* C26: when the completion is not valid JSON, or is an object that fails
\* the schema, or names an unknown operation kind, the classifier raises
\* nothing, sets the categories to exactly <<"no_reconocida">> and appends
\* exactly one error of node "clasificador" with recuperable = TRUE.
C26_FalloDeParseoNoFatal ==
    \A r \in Peticiones :
        pc[r] = "clasificador"
        => \A t \in TextosFallidos :
              LET c == clasificar_pregunta(estado[r], TRUE, t)
              IN /\ ~c.excepcion
                 /\ c.state.intenciones = <<"no_reconocida">>
                 /\ UnErrorClasificador(estado[r].errores, c.state.errores, TRUE)

\* A request whose classifier met such a completion: the call was made, the
\* categories are the sentinel and the one error is recoverable.
C26_Testigo ==
    \E r \in Peticiones :
        /\ nodos[r] = <<"clasificador">>
        /\ llamadas_llm[r] = <<"clasificador">>
        /\ estado[r].intenciones = <<"no_reconocida">>
        /\ UnErrorClasificador(<<>>, estado[r].errores, TRUE)
        /\ estado[r].errores[1].mensaje = "Error procesando clasificacion"

\* The classifier of request r has returned a state with no fatal error.
Clasificada(r) ==
    /\ nodos[r] # <<>>
    /\ pc[r] # "error"
    /\ ~tiene_error_fatal(estado[r])

\* C27: a completion whose categories list is empty is not accepted as the
\* classification, it is a schema failure that leaves the sentinel: once the
\* classifier has returned without a fatal error the categories of the state
\* are never empty.
C27_ListaVaciaRechazada ==
    \A r \in Peticiones : Clasificada(r) => estado[r].intenciones # <<>>

\* C28: when the completion call of the classifier itself fails, the
\* providers exhausted or one of them failing otherwise, the classifier
\* raises nothing, appends exactly one error of node "clasificador" with
\* recuperable = FALSE and leaves the categories empty.
C28_FalloDeLlamadaFatal ==
    \A r \in Peticiones :
        pc[r] = "clasificador"
        => \A res \in [DOMAIN providers -> ResultadosProveedor] :
              ~llamar(activo, res).ok
              => LET c == clasificar_pregunta(estado[r], llamar(activo, res).ok,
                                              SinTexto)
                 IN /\ ~c.excepcion
                    /\ c.state.intenciones = <<>>
                    /\ UnErrorClasificador(estado[r].errores, c.state.errores,
                                           FALSE)

\* A request whose classifier's call failed: the call was made, the one
\* error is fatal and the categories are empty.
C28_Testigo ==
    \E r \in Peticiones :
        /\ nodos[r] = <<"clasificador">>
        /\ llamadas_llm[r] = <<"clasificador">>
        /\ estado[r].intenciones = <<>>
        /\ UnErrorClasificador(<<>>, estado[r].errores, FALSE)

\* The outcome of a failed completion on the normal path, from the state
\* `antes_` the generator was given to the state `despues` it returns.
SalidaReintento(antes_, despues, de) ==
    /\ despues.respuesta_final = RESPUESTA_REINTENTO
    /\ despues.errores = Append(antes_.errores,
           ErrorDe("generador_respuesta", "RuntimeError", TRUE))
    /\ despues.memoria = Limitar(antes_.memoria \o
           <<MensajeMemoria("usuario", antes_.pregunta_actual, de),
             MensajeMemoria("agente", RESPUESTA_REINTENTO, de)>>)

\* C29: on the normal path, when the completion call of the generator
\* fails, the answer is the fixed retry string, exactly one error of node
\* "generador_respuesta" with recuperable = TRUE is appended, and the turn of
\* the user and the turn of the agent enter the memoria; the node returns.
C29_FalloDelGeneradorContenido ==
    \A r \in Peticiones :
        (pc[r] = "generador_respuesta" /\ RamaGenerador(estado[r]) = "normal")
        => \A res \in [DOMAIN providers -> ResultadosProveedor] :
              ~llamar(activo, res).ok
              => LET g == generar_respuesta(estado[r], 1, llamar(activo, res).ok,
                                            <<>>, r)
                 IN g.llamo /\ SalidaReintento(estado[r], g.state, r)

\* A request whose generator's call failed after a fetch that returned rows.
C29_Testigo ==
    \E r \in Peticiones :
        /\ TrasGrafo(r)
        /\ GeneradorLlamo(r)
        /\ estado[r].contexto_db # <<>>
        /\ estado[r].respuesta_final = RESPUESTA_REINTENTO
        /\ ErroresDe(estado[r].errores, "generador_respuesta")
               = {Len(estado[r].errores)}
        /\ Len(estado[r].memoria) >= 2
        /\ estado[r].memoria[Len(estado[r].memoria)]
               = MensajeMemoria("agente", RESPUESTA_REINTENTO, r)

\* The nodes of the graph, as positions of a request.
Etapas == {"clasificador", "ejecutor_consultas", "generador_respuesta"}

\* C30: within a request errores only grows at its end: across the step of
\* every node the errores of before is a prefix of the errores of after, so
\* no record is dropped, cleared or moved.
C30_ErroresSoloCrecen ==
    [][\A r \in Peticiones :
          pc[r] \in Etapas
          => Prefijo(estado[r].errores, estado'[r].errores)]_vars

\* A request that went through the three nodes and holds the records of two
\* of them: the generator kept the record of a tool and added its own.
C30_Testigo ==
    \E r \in Peticiones :
        /\ TrasGrafo(r)
        /\ nodos[r] = <<"clasificador", "ejecutor_consultas", "generador_respuesta">>
        /\ Len(estado[r].errores) >= 2
        /\ estado[r].errores[Len(estado[r].errores)].nodo = "generador_respuesta"
        /\ estado[r].errores[1].nodo # "generador_respuesta"

\* The keys of the store in the order of the dict.
Orden(ses) == [k \in DOMAIN ses |-> ses[k].id]

\* Request r takes the step of obtener_memoria_sesion and a session is
\* created for it, or it finds the session it named.
Crea(r) == pc[r] = "nueva" /\ EnVuelo(r)' /\ siguiente_id' = siguiente_id + 1
Encuentra(r) == pc[r] = "nueva" /\ EnVuelo(r)' /\ siguiente_id' = siguiente_id

\* Request r puts the memoria of a session that is in the store.
Repone(r) == Responde(r) /\ session_id[r] \in Claves(sesiones)

\* C31: the sessions a creation removes are exactly the earliest-created
\* ones (ids are minted in the order of creation, so every removed id is
\* below every id that stays); a get of a stored session leaves the store as
\* it is and a put on a stored id leaves the order of the keys as it is.
C31_DesalojoPorOrdenDeCreacion ==
    [][\A r \in Peticiones :
          /\ Crea(r)
             => \A x \in Claves(sesiones) \ Claves(sesiones'),
                   y \in Claves(sesiones') : x < y
          /\ Encuentra(r) => sesiones' = sesiones
          /\ Repone(r) => Orden(sesiones') = Orden(sesiones)]_vars

\* The state with another operation kind, all else equal.
ConTipo(state, t) == [state EXCEPT !.tipo_operacion = t]

\* The classifier has just returned for request r: estado[r] is its output
\* and pc[r] the node the conditional edge chose.
RecienClasificada(r) ==
    /\ nodos[r] = <<"clasificador">>
    /\ pc[r] \in {"ejecutor_consultas", "generador_respuesta"}

\* C32: the operation kind has no effect on the run.  Whatever of the four
\* kinds stands in the state in place of the one the classifier produced,
\* the conditional edge chooses the same node, the dispatcher awaits the
\* same fetches and returns the same contexto_db and errores, and the
\* generator takes the same branch and returns the same state, the kind
\* aside.
C32_TipoDeOperacionSinEfecto ==
    \A r \in Peticiones, t \in TipoOperacion :
        /\ RecienClasificada(r)
           => decidir_despues_de_clasificador(ConTipo(estado[r], t)) = pc[r]
        /\ pc[r] = "ejecutor_consultas"
           => \A res \in [DOMAIN IntencionesValidas(estado[r]) -> ResultadosConsulta] :
                 LET e == ejecutar_consultas(estado[r], res)
                     f == ejecutar_consultas(ConTipo(estado[r], t), res)
                 IN e.delta = f.delta /\ e.llamadas = f.llamadas
        /\ pc[r] = "generador_respuesta"
           => /\ RamaGenerador(ConTipo(estado[r], t)) = RamaGenerador(estado[r])
              /\ \A ok \in BOOLEAN, texto \in TextosGenerador :
                    LET g == generar_respuesta(estado[r], 1, ok, texto, r)
                        h == generar_respuesta(ConTipo(estado[r], t), 1, ok, texto, r)
                    IN g.llamo = h.llamo /\ ConTipo(g.state, t) = h.state

\* A request classified as an insertion whose fetch ran and returned rows.
C32_Testigo ==
    \E r \in Peticiones :
        /\ TrasGrafo(r)
        /\ estado[r].tipo_operacion = "insertar"
        /\ consultas[r] # <<>>
        /\ estado[r].contexto_db # <<>>
        /\ GeneradorLlamo(r)

\* The fields the classifier owns.
DelClasificador(state) ==
    <<state.pregunta_actual, state.intenciones, state.tipo_operacion>>

\* C33: once the classifier has returned, neither the dispatcher nor the
\* generator changes pregunta_actual, intenciones or tipo_operacion, so the
\* state the response is built from holds the categories of the classifier.
C33_CamposDelClasificador ==
    [][\A r \in Peticiones :
          pc[r] \in {"ejecutor_consultas", "generador_respuesta"}
          => DelClasificador(estado'[r]) = DelClasificador(estado[r])]_vars

\* A request that ran the three nodes with two categories and an operation
\* kind other than the default, and still holds them at the response.
C33_Testigo ==
    \E r \in Peticiones :
        /\ TrasGrafo(r)
        /\ nodos[r] = <<"clasificador", "ejecutor_consultas", "generador_respuesta">>
        /\ estado[r].intenciones = <<"inventario", "garantias">>
        /\ estado[r].tipo_operacion = "insertar"
        /\ estado[r].contexto_db # <<>>

\* The sources of the blocks a category's fetch appends when it succeeds,
\* in order.
BloquesDe(intencion) ==
    IF intencion = "conteos" THEN <<"conteos", "detalles_conteos">>
    ELSE <<intencion>>

\* The sources of the blocks of a contexto_db, in order.
Fuentes(contexto) == [k \in DOMAIN contexto |-> contexto[k].fuente]

\* The dispatcher of request r awaited one fetch and the database answered
\* its queries with rows.
UnaConsultaConFilas(r) ==
    /\ TrasEjecutor(r)
    /\ Len(consultas[r]) = 1
    /\ resultados[r] = <<"filas">>

\* C34: a fetch the database answers completes with no error; that of
\* "conteos" contributes two blocks, of sources "conteos" and
\* "detalles_conteos", that of every other category one block of the
\* category's name.
C34_BloquesPorCategoria ==
    \A r \in Peticiones :
        UnaConsultaConFilas(r)
        => /\ Fuentes(estado[r].contexto_db) = BloquesDe(consultas[r][1])
           /\ estado[r].errores = <<>>

\* A memoria of whole exchanges: the turn of the user, then the turn of the
\* agent, and so on.
EnPares(memoria) ==
    /\ Len(memoria) % 2 = 0
    /\ \A i \in DOMAIN memoria :
          memoria[i].rol = IF i % 2 = 1 THEN "usuario" ELSE "agente"

\* C35: every completion used as an answer being non-empty (the completions
\* of Spec are) and the bound being even (the 10 of the source is), the
\* memoria stored for a session always has an even length and alternates
\* usuario, agente from a turn of the user on: the cut never splits an
\* exchange.  The second conjunct takes the generator through its four
\* branches from every memoria a request of Spec holds.
C35_MemoriaEnPares ==
    MAX_MENSAJES_MEMORIA % 2 = 0
    => /\ \A k \in DOMAIN sesiones : EnPares(sesiones[k].memoria)
       /\ \A r \in Peticiones :
             pc[r] = "generador_respuesta"
             => \A pregunta \in FrasesTodas \ {<<>>},
                   intenciones \in {estado[r].intenciones, <<"no_reconocida">>},
                   variante \in DOMAIN saludos_respuesta,
                   ok \in BOOLEAN :
                   EnPares(generar_respuesta(
                       [estado[r] EXCEPT !.pregunta_actual = pregunta,
                                         !.intenciones = intenciones],
                       variante, ok, <<"respuesta">>, r).state.memoria)

\* A stored session that has been cut and holds as many turns as the bound.
C35_Testigo ==
    \E k \in DOMAIN sesiones :
        /\ Len(completa[sesiones[k].id]) > MAX_MENSAJES_MEMORIA
        /\ Len(sesiones[k].memoria) = MAX_MENSAJES_MEMORIA
        /\ sesiones[k].memoria[1].rol = "usuario"

\* With no provider active every call of llamar fails and calls no provider.
LlamarSinProveedor ==
    \A res \in [DOMAIN providers -> ResultadosProveedor] :
        /\ ~llamar(activo, res).ok
        /\ llamar(activo, res).llamados = <<>>
        /\ llamar(activo, res).activo = activo

\* The end of a request that met no provider and was not taken for a
\* greeting: one call, that of the classifier, its fatal error alone, no
\* fetch, the apology, and the memoria the request started with.
SalidaSinProveedor(r) ==
    /\ llamadas_llm[r] = <<"clasificador">>
    /\ UnErrorClasificador(<<>>, estado[r].errores, FALSE)
    /\ nodos[r] = <<"clasificador", "generador_respuesta">>
    /\ consultas[r] = <<>>
    /\ estado[r].respuesta_final = RESPUESTA_ERROR_FATAL
    /\ estado[r].memoria = semilla[r]

CaminoNormal(r) ==
    /\ ~es_saludo(estado[r].pregunta_actual)
    /\ ~tiene_error_fatal(estado[r])
    /\ estado[r].intenciones # <<"no_reconocida">>

\* C37: in one request the classifier calls gemini.llamar exactly once and
\* the generator at most once, and only on its normal path: the calls of a
\* request are none before the classifier, the classifier's one after it,
\* and the generator's second one exactly when the generator has run on its
\* normal path.
C37_LlamadasPorPeticion ==
    \A r \in Peticiones :
        /\ llamadas_llm[r] \in {<<>>, <<"clasificador">>,
                                <<"clasificador", "generador_respuesta">>}
        /\ llamadas_llm[r] = <<>> <=> nodos[r] = <<>>
        /\ GeneradorLlamo(r) <=> (TrasGrafo(r) /\ CaminoNormal(r))

\* A request whose generator answered the unrecognized question with the
\* classifier's call alone, on a session whose earlier request made both
\* calls: the completion of that one is in the memoria this one started with.
C37_Testigo ==
    \E r \in Peticiones :
        /\ TrasGrafo(r)
        /\ llamadas_llm[r] = <<"clasificador">>
        /\ estado[r].respuesta_final = RESPUESTA_NO_RECONOCIDA
        /\ \E k \in DOMAIN semilla[r] :
              semilla[r][k].contenido = <<"respuesta">>

\* Request r is handled in this step and is one procesar_pregunta rejects:
\* its header fails the authentication or its question is empty once
\* stripped.
LlegaParaRechazo(r) ==
    /\ pc[r] = "nueva" /\ pc'[r] # "nueva"
    /\ \/ cuerpo'[r].credencial # "valida"
       \/ cuerpo'[r].pregunta = <<>>

\* Request r has been rejected.
Rechazada(r) == pc[r] \in {"rechazada", "no_autorizada"}

\* C38: a request that fails the authentication or whose question is empty
\* is rejected before the store is touched: its step leaves the store and
\* the id counter as they were, and no node, call or fetch ever runs for it.
C38_RechazoSinEfecto ==
    /\ [][\A r \in Peticiones :
             LlegaParaRechazo(r)
             => /\ Rechazada(r)'
                /\ sesiones' = sesiones
                /\ siguiente_id' = siguiente_id]_vars
    /\ [](\A r \in Peticiones :
             Rechazada(r)
             => /\ session_id[r] = Ninguno
                /\ nodos[r] = <<>>
                /\ llamadas_llm[r] = <<>>
                /\ consultas[r] = <<>>)

\* Both rejections have happened, to requests sent without a session id,
\* and the store is still empty.
C38_Testigo ==
    /\ pc[1] = "rechazada" /\ cuerpo[1].session_id = Ninguno
    /\ pc[2] = "no_autorizada" /\ cuerpo[2].session_id = Ninguno
    /\ cuerpo[2].pregunta # <<>>
    /\ sesiones = <<>>

\* The sessions in play at a creation: the stored ones and the minted one.
EnJuego == Claves(sesiones) \cup {siguiente_id}

\* C39: a session obtener_memoria_sesion has just created is not evicted by
\* its own creation: on return the minted id is in the store with an empty
\* memoria, the store holds at most MAX_SESIONES sessions, and those that
\* stay are the most recently created ones (ids are minted in the order of
\* creation, so every id that left is below every id that stays).
C39_RecienCreadaPermanece ==
    [][\A r \in Peticiones :
          Crea(r)
          => /\ session_id'[r] = siguiente_id
             /\ session_id'[r] \in Claves(sesiones')
             /\ sesiones'[LugarDe(sesiones', session_id'[r])].memoria = <<>>
             /\ Len(sesiones') <= MAX_SESIONES
             /\ \A x \in EnJuego \ Claves(sesiones'), y \in Claves(sesiones') :
                   x < y]_vars

====
